---- MODULE Spec2Model ----
(***************************************************************************)
(* Model of split_html_on_headers.py: the BeautifulSoup-based segmenter    *)
(* split_text_from_file, the optional pre-filter preprocess_html and the   *)
(* driver split_html (metadata filter, interactive review, persistence).   *)
(*                                                                         *)
(* A parsed HTML document is a sequence of nodes in parse (document)       *)
(* order.  Node i has a name (a tag name, or "#text" for a string), the    *)
(* index of its parent (0 is the BeautifulSoup object itself), its class   *)
(* attribute ("" when absent) and, for a string, its characters.  Strings  *)
(* are sequences of one-character strings, so that strip() and join() are  *)
(* computed and not assumed.                                               *)
(***************************************************************************)
EXTENDS Integers, Sequences, FiniteSets, TLC

VARIABLES file, pc, documents, hi,
          exists, target_tag, target_class, drop_empty_metadata, interactive,
          html_header_splits, si, all_html_header_splits, shown,
          written, output_pkl, output_txt

vars == <<file, pc, documents, hi,
          exists, target_tag, target_class, drop_empty_metadata, interactive,
          html_header_splits, si, all_html_header_splits, shown,
          written, output_pkl, output_txt>>

htmlVars == <<exists, target_tag, target_class, drop_empty_metadata, interactive,
              html_header_splits, si, all_html_header_splits, shown,
              written, output_pkl, output_txt>>

(***************************************************************************)
(* Bounds of the explored inputs.                                          *)
(***************************************************************************)
MaxNodes == 4

MaxFileNodes == 3

TEXT == "#text"

\* Tag names and strings the segmenter's documents are drawn from: a body,
\* a container, and headers of two of the configured levels.
SegTags == {"body", "div", "h1", "h2"}

SegTexts == { <<" ">>, <<" ", "a">> }

\* Tag names, class values and strings of the files given to split_html.
FileTags == {"div", "h1"}

FileClasses == {"", "main"}

FileTexts == { <<" ">>, <<"a", " ">> }

\* What the reviewer may type at the prompt.
Answers == { <<>>, <<"d">>, <<"D">> }

(***************************************************************************)
(* Strings.                                                                *)
(***************************************************************************)
IsSpace(c) == c = " "

RECURSIVE LStrip(_)
LStrip(s) == IF s # <<>> /\ IsSpace(Head(s)) THEN LStrip(Tail(s)) ELSE s

RECURSIVE RStrip(_)
RStrip(s) ==
    IF s # <<>> /\ IsSpace(s[Len(s)]) THEN RStrip(SubSeq(s, 1, Len(s) - 1)) ELSE s

\* str.strip()
Strip(s) == RStrip(LStrip(s))

\* separator.join(parts)
RECURSIVE Join(_, _)
Join(parts, sep) ==
    IF parts = <<>> THEN <<>>
    ELSE IF Len(parts) = 1 THEN parts[1]
    ELSE parts[1] \o sep \o Join(Tail(parts), sep)

\* str.lower() on the characters the reviewer can type
LowerChar(c) == IF c = "D" THEN "d" ELSE IF c = "K" THEN "k" ELSE c

Lower(s) == [k \in 1..Len(s) |-> LowerChar(s[k])]

(***************************************************************************)
(* The parsed tree.                                                        *)
(***************************************************************************)
IsTag(d, n) == d[n].name # TEXT

\* n and its ancestors, up to and including the BeautifulSoup object 0.
RECURSIVE SelfAndAncestors(_, _)
SelfAndAncestors(d, n) ==
    IF n = 0 THEN {0} ELSE {n} \cup SelfAndAncestors(d, d[n].parent)

\* The elements of the subtree below root, in document order.
Descendants(d, root) ==
    {n \in 1..Len(d) : n # root /\ root \in SelfAndAncestors(d, n)}

\* A set of node indices as the sequence in document order.
RECURSIVE Ascending(_)
Ascending(S) ==
    IF S = {} THEN <<>>
    ELSE LET m == CHOOSE x \in S : \A y \in S : x <= y
         IN <<m>> \o Ascending(S \ {m})

Reverse(s) == [k \in 1..Len(s) |-> s[Len(s) + 1 - k]]

\* The open elements a parser can attach the next node to.
OpenElements(d) ==
    IF d = <<>> THEN {0}
    ELSE {a \in SelfAndAncestors(d, Len(d)) : a = 0 \/ IsTag(d, a)}

\* The documents one node longer than d.  The parser merges adjacent
\* character data into one string, so a string never follows a string
\* under the same parent.  A body element is read at the top level only.
Extend(d, tags, classes, texts) ==
    {Append(d, [name |-> t, parent |-> p, class |-> c, text |-> <<>>]) :
        t \in tags \ {"body"}, p \in OpenElements(d), c \in classes}
    \cup
    {Append(d, [name |-> t, parent |-> 0, class |-> c, text |-> <<>>]) :
        t \in tags \cap {"body"}, c \in classes}
    \cup
    {Append(d, [name |-> TEXT, parent |-> p, class |-> "", text |-> s]) :
        s \in texts,
        p \in {q \in OpenElements(d) :
                 ~(d # <<>> /\ ~IsTag(d, Len(d)) /\ d[Len(d)].parent = q)}}

(***************************************************************************)
(* BeautifulSoup queries used by the code.                                 *)
(***************************************************************************)
\* The stripped, non-empty strings below n, in document order.
StrippedStrings(d, n) ==
    LET strs == Ascending({j \in Descendants(d, n) : ~IsTag(d, j)})
        keep == SelectSeq(strs, LAMBDA j : Strip(d[j].text) # <<>>)
    IN [k \in 1..Len(keep) |-> Strip(d[keep[k]].text)]

\* elem.get_text(separator=' ', strip=True)
get_text(d, n) == Join(StrippedStrings(d, n), <<" ">>)

\* soup.body if soup.body else soup
soup_body(d) ==
    LET bodies == {n \in 1..Len(d) : d[n].name = "body"}
    IN IF bodies = {} THEN 0 ELSE CHOOSE n \in bodies : \A m \in bodies : n <= m

\* root.find_all(names)
find_all(d, root, names) ==
    Ascending({n \in Descendants(d, root) : d[n].name \in names})

\* elem.find_all_previous(): the tags parsed before elem, nearest first.
find_all_previous(d, n) ==
    Reverse(Ascending({j \in 1..(n - 1) : IsTag(d, j)}))

\* elem.find_next_siblings(): the tags after elem under the same parent.
find_next_siblings(d, n) ==
    Ascending({j \in (n + 1)..Len(d) : d[j].parent = d[n].parent /\ IsTag(d, j)})

(***************************************************************************)
(* split_text_from_file                                                    *)
(***************************************************************************)
HEADERS_TO_SPLIT_ON ==
    << <<"h1", "Header 1">>, <<"h2", "Header 2">>, <<"h3", "Header 3">> >>

headers_to_split_on ==
    {HEADERS_TO_SPLIT_ON[k][1] : k \in 1..Len(HEADERS_TO_SPLIT_ON)}

header_mapping(name) ==
    LET k == CHOOSE j \in 1..Len(HEADERS_TO_SPLIT_ON) : HEADERS_TO_SPLIT_ON[j][1] = name
    IN HEADERS_TO_SPLIT_ON[k][2]

Document(content, md) == [page_content |-> content, metadata |-> md]

EmptyMetadata == <<>>

\* A variant that collects the headers level by level.
all_headers_by_level(d) ==
    find_all(d, soup_body(d), {"h1"}) \o find_all(d, soup_body(d), {"h2"})
        \o find_all(d, soup_body(d), {"h3"})

all_headers(d) == find_all(d, soup_body(d), headers_to_split_on)

\* The loop over first_header.find_all_previous(): each non-empty text is
\* put in front of what was collected so far.
RECURSIVE PreHeaderLoop(_, _, _)
PreHeaderLoop(d, elems, acc) ==
    IF elems = <<>> THEN acc
    ELSE LET text == get_text(d, Head(elems))
         IN PreHeaderLoop(d, Tail(elems),
                          IF text # <<>> THEN text \o <<" ">> \o acc ELSE acc)

pre_header_content(d) == PreHeaderLoop(d, find_all_previous(d, all_headers(d)[1]), <<>>)

\* The documents list after the first-header branch.
PreHeaderDocuments(d) ==
    IF Strip(pre_header_content(d)) # <<>>
    THEN <<Document(Strip(pre_header_content(d)), EmptyMetadata)>>
    ELSE <<>>

\* A variant that returns the whole text without looking whether it is blank.
NoHeaderDocuments_unchecked(d) ==
    <<Document(Strip(get_text(d, soup_body(d))), EmptyMetadata)>>

\* The documents list returned by the no-header branch.
NoHeaderDocuments(d) ==
    LET full_text == get_text(d, soup_body(d))
    IN IF Strip(full_text) # <<>>
       THEN <<Document(Strip(full_text), EmptyMetadata)>>
       ELSE <<>>

\* A variant that keeps the entries of the headers met before this one.
current_metadata_breadcrumb(d, header) ==
    LET seen == {h \in 1..header : \E k \in 1..Len(all_headers(d)) : all_headers(d)[k] = h}
        last(l) == CHOOSE h \in seen :
                      /\ header_mapping(d[h].name) = l
                      /\ \A g \in seen : header_mapping(d[g].name) = l => g <= h
    IN [l \in {header_mapping(d[h].name) : h \in seen} |-> get_text(d, last(l))]

current_metadata(d, header) == header_mapping(d[header].name) :> get_text(d, header)

\* The loop over header.find_next_siblings(), left at the first header.
RECURSIVE SiblingLoop(_, _, _)
SiblingLoop(d, sibs, acc) ==
    IF sibs = <<>> THEN acc
    ELSE IF d[Head(sibs)].name \in headers_to_split_on THEN acc
    ELSE SiblingLoop(d, Tail(sibs),
                     IF IsTag(d, Head(sibs)) THEN Append(acc, Head(sibs)) ELSE acc)

\* A variant that stops only at a header of the same or a higher level.
RECURSIVE SiblingLoop_same_or_higher(_, _, _, _)
SiblingLoop_same_or_higher(d, header, sibs, acc) ==
    IF sibs = <<>> THEN acc
    ELSE IF /\ d[Head(sibs)].name \in headers_to_split_on
            /\ \E j, k \in 1..Len(HEADERS_TO_SPLIT_ON) :
                  /\ HEADERS_TO_SPLIT_ON[j][1] = d[Head(sibs)].name
                  /\ HEADERS_TO_SPLIT_ON[k][1] = d[header].name
                  /\ j <= k
         THEN acc
    ELSE SiblingLoop_same_or_higher(d, header, Tail(sibs), Append(acc, Head(sibs)))

content_elements_same_or_higher(d, header) ==
    SiblingLoop_same_or_higher(d, header, find_next_siblings(d, header), <<>>)

content_elements(d, header) == SiblingLoop(d, find_next_siblings(d, header), <<>>)

RECURSIVE ContentLoop(_, _, _)
ContentLoop(d, elems, acc) ==
    IF elems = <<>> THEN acc
    ELSE LET text == get_text(d, Head(elems))
         IN ContentLoop(d, Tail(elems),
                        IF text # <<>> THEN acc \o text \o <<" ">> ELSE acc)

current_content(d, header) == ContentLoop(d, content_elements(d, header), <<>>)

\* The Document appended for one header.
HeaderDocument(d, header) ==
    IF Strip(current_content(d, header)) # <<>>
    THEN Document(Strip(current_content(d, header)), current_metadata(d, header))
    ELSE Document(<<>>, current_metadata(d, header))

RECURSIVE HeaderLoop(_, _, _)
HeaderLoop(d, hs, docs) ==
    IF hs = <<>> THEN docs
    ELSE HeaderLoop(d, Tail(hs), Append(docs, HeaderDocument(d, Head(hs))))

\* The whole function, as split_html calls it.
split_text_from_file(d) ==
    IF all_headers(d) # <<>>
    THEN HeaderLoop(d, all_headers(d), PreHeaderDocuments(d))
    ELSE NoHeaderDocuments(d)

(***************************************************************************)
(* The segmenter, one step per branch and per header.                      *)
(***************************************************************************)
HtmlIdle ==
    /\ exists = TRUE
    /\ target_tag = ""
    /\ target_class = ""
    /\ drop_empty_metadata = TRUE
    /\ interactive = FALSE
    /\ html_header_splits = <<>>
    /\ si = 0
    /\ all_html_header_splits = <<>>
    /\ shown = <<>>
    /\ written = FALSE
    /\ output_pkl = <<>>
    /\ output_txt = <<>>

Init ==
    /\ file = <<>>
    /\ pc = "start"
    /\ documents = <<>>
    /\ hi = 0
    /\ HtmlIdle

\* Lines 149-158: the parser reads the next element or string of the input.
ParseNode ==
    /\ pc = "start"
    /\ Len(file) < MaxNodes
    /\ file' \in Extend(file, SegTags, {""}, SegTexts)
    /\ UNCHANGED <<pc, documents, hi, htmlVars>>

\* Lines 172-185: a first header exists.
CollectPreHeader ==
    /\ pc = "start"
    /\ all_headers(file) # <<>>
    /\ documents' = PreHeaderDocuments(file)
    /\ hi' = 1
    /\ pc' = "headers"
    /\ UNCHANGED <<file, htmlVars>>

\* Lines 186-194: no header, the whole text is returned.
ReturnWholeText ==
    /\ pc = "start"
    /\ all_headers(file) = <<>>
    /\ documents' = NoHeaderDocuments(file)
    /\ pc' = "returned"
    /\ UNCHANGED <<file, hi, htmlVars>>

\* Lines 197-230: one iteration of the loop over all_headers.
ProcessHeader ==
    /\ pc = "headers"
    /\ hi <= Len(all_headers(file))
    /\ documents' = Append(documents, HeaderDocument(file, all_headers(file)[hi]))
    /\ hi' = hi + 1
    /\ UNCHANGED <<file, pc, htmlVars>>

\* Line 232.
ReturnDocuments ==
    /\ pc = "headers"
    /\ hi > Len(all_headers(file))
    /\ pc' = "returned"
    /\ UNCHANGED <<file, documents, hi, htmlVars>>

Next ==
    \/ ParseNode
    \/ CollectPreHeader
    \/ ReturnWholeText
    \/ ProcessHeader
    \/ ReturnDocuments

Spec == Init /\ [][Next]_vars

(***************************************************************************)
(* preprocess_html and split_html                                          *)
(***************************************************************************)
\* soup.find(tag, class_=cls): the first matching element, 0 when none.
find(d, tag, cls) ==
    LET hits == {n \in 1..Len(d) : IsTag(d, n) /\ d[n].name = tag /\ d[n].class = cls}
    IN IF hits = {} THEN 0 ELSE CHOOSE n \in hits : \A m \in hits : n <= m

\* str(section): the markup of the element alone, as the tree it parses to.
Subtree(d, n) ==
    LET last == CHOOSE m \in Descendants(d, n) \cup {n} :
                    \A j \in Descendants(d, n) : j <= m
    IN [k \in 1..(last - n + 1) |->
          IF k = 1 THEN [d[n] EXCEPT !.parent = 0]
          ELSE [d[n + k - 1] EXCEPT !.parent = @ - (n - 1)]]

\* A variant that falls through to the whole HTML when nothing matches.
preprocess_html_fallthrough(html, tag, cls) ==
    IF tag # "" /\ cls # "" /\ find(html, tag, cls) # 0
    THEN Subtree(html, find(html, tag, cls))
    ELSE html

\* An absent argument (None) is the empty string; both are falsy.
preprocess_html(html, tag, cls) ==
    IF tag # "" /\ cls # ""
    THEN IF find(html, tag, cls) # 0
         THEN Subtree(html, find(html, tag, cls))
         ELSE <<>>
    ELSE html

\* not html.strip(): markup without any tag and with blank character data.
IsBlankHtml(html) ==
    \A n \in 1..Len(html) : ~IsTag(html, n) /\ Strip(html[n].text) = <<>>

\* A variant without the metadata filter.
is_dropped_never(split) == FALSE

\* drop_empty_metadata and not split.metadata
is_dropped(split) == drop_empty_metadata /\ DOMAIN split.metadata = {}

\* user_input.lower() == "d"
is_disregarded(user_input) == Lower(user_input) = <<"d">>

\* str(metadata): the repr of a dict with at most one entry.
str_metadata(md) ==
    IF DOMAIN md = {} THEN <<"{", "}">>
    ELSE LET key == CHOOSE k \in DOMAIN md : TRUE
         IN <<"{", "'", key, "'", ":", " ", "'">> \o md[key] \o <<"'", "}">>

\* The three writes per split of the text file.
RECURSIVE write_txt(_)
write_txt(splits) ==
    IF splits = <<>> THEN <<>>
    ELSE <<"=====", "\n">>
         \o str_metadata(Head(splits).metadata) \o <<"\n">>
         \o Head(splits).page_content \o <<"\n">>
         \o write_txt(Tail(splits))

SegIdle ==
    /\ documents = <<>>
    /\ hi = 0

InitHtml ==
    /\ file = <<>>
    /\ pc = "open"
    /\ SegIdle
    /\ exists \in BOOLEAN
    /\ target_tag \in {"", "div"}
    /\ target_class \in {"", "main"}
    /\ drop_empty_metadata \in BOOLEAN
    /\ interactive \in BOOLEAN
    /\ html_header_splits = <<>>
    /\ si = 0
    /\ all_html_header_splits = <<>>
    /\ shown = <<>>
    /\ written = FALSE
    /\ output_pkl = <<>>
    /\ output_txt = <<>>

callVars == <<exists, target_tag, target_class, drop_empty_metadata, interactive>>

\* Lines 76-78: the next element or string of the file that is read.
ReadFile ==
    /\ pc = "open"
    /\ exists
    /\ Len(file) < MaxFileNodes
    /\ file' \in Extend(file, FileTags, FileClasses, FileTexts)
    /\ UNCHANGED <<pc, documents, hi, callVars, html_header_splits, si,
                   all_html_header_splits, shown, written, output_pkl, output_txt>>

\* Lines 129-130: open() raises FileNotFoundError, which is only logged.
FileNotFound ==
    /\ pc = "open"
    /\ ~exists
    /\ pc' = "failed"
    /\ UNCHANGED <<file, documents, hi, callVars, html_header_splits, si,
                   all_html_header_splits, shown, written, output_pkl, output_txt>>

\* Lines 81-89: the preprocessed HTML is blank.
SaveEmpty ==
    /\ pc = "open"
    /\ exists
    /\ IsBlankHtml(preprocess_html(file, target_tag, target_class))
    /\ output_pkl' = <<>>
    /\ output_txt' = <<>>
    /\ written' = TRUE
    /\ pc' = "done"
    /\ UNCHANGED <<file, documents, hi, callVars, html_header_splits, si,
                   all_html_header_splits, shown>>

\* Lines 81-94: the splits are taken from split_text_from_file(file_path).
SegmentFile ==
    /\ pc = "open"
    /\ exists
    /\ ~IsBlankHtml(preprocess_html(file, target_tag, target_class))
    /\ all_html_header_splits' = <<>>
    /\ html_header_splits' = split_text_from_file(file)
    /\ si' = 1
    /\ pc' = "splits"
    /\ UNCHANGED <<file, documents, hi, callVars, shown, written, output_pkl, output_txt>>

\* Lines 96-99: a split with empty metadata is dropped.
DropSplit ==
    /\ pc = "splits"
    /\ si <= Len(html_header_splits)
    /\ is_dropped(html_header_splits[si])
    /\ si' = si + 1
    /\ UNCHANGED <<file, pc, documents, hi, callVars, html_header_splits,
                   all_html_header_splits, shown, written, output_pkl, output_txt>>

\* Lines 101-112: the split is shown and the reviewer answers.
ReviewSplit ==
    /\ pc = "splits"
    /\ si <= Len(html_header_splits)
    /\ ~is_dropped(html_header_splits[si])
    /\ interactive
    /\ \E user_input \in Answers :
          /\ shown' = Append(shown, [index |-> si, answer |-> user_input])
          /\ all_html_header_splits' =
                IF is_disregarded(user_input)
                THEN all_html_header_splits
                ELSE Append(all_html_header_splits, html_header_splits[si])
    /\ si' = si + 1
    /\ UNCHANGED <<file, pc, documents, hi, callVars, html_header_splits,
                   written, output_pkl, output_txt>>

\* Lines 101, 112: without review the split is kept.
KeepSplit ==
    /\ pc = "splits"
    /\ si <= Len(html_header_splits)
    /\ ~is_dropped(html_header_splits[si])
    /\ ~interactive
    /\ all_html_header_splits' = Append(all_html_header_splits, html_header_splits[si])
    /\ si' = si + 1
    /\ UNCHANGED <<file, pc, documents, hi, callVars, html_header_splits,
                   shown, written, output_pkl, output_txt>>

\* Lines 114-127: the pickle and the text file are written.
SaveSplits ==
    /\ pc = "splits"
    /\ si > Len(html_header_splits)
    /\ output_pkl' = all_html_header_splits
    /\ output_txt' = write_txt(all_html_header_splits)
    /\ written' = TRUE
    /\ pc' = "done"
    /\ UNCHANGED <<file, documents, hi, callVars, html_header_splits, si,
                   all_html_header_splits, shown>>

NextHtml ==
    \/ ReadFile
    \/ FileNotFound
    \/ SaveEmpty
    \/ SegmentFile
    \/ DropSplit
    \/ ReviewSplit
    \/ KeepSplit
    \/ SaveSplits

SpecHtml == InitHtml /\ [][NextHtml]_vars

(***************************************************************************)
(* What the claims speak of, stated on the tree and on the result.         *)
(***************************************************************************)
\* The subtree that is scanned: the first body element, else the whole tree.
ScannedRoot(d) ==
    IF \E n \in 1..Len(d) : d[n].name = "body"
    THEN CHOOSE n \in 1..Len(d) :
            d[n].name = "body" /\ \A m \in 1..(n - 1) : d[m].name # "body"
    ELSE 0

IsHeaderTag(t) == t \in {"h1", "h2", "h3"}

LabelOfTag(t) ==
    CASE t = "h1" -> "Header 1"
      [] t = "h2" -> "Header 2"
      [] t = "h3" -> "Header 3"

\* The header elements found, as a set of node indices.
HeaderElements(d) ==
    {n \in 1..Len(d) :
        IsHeaderTag(d[n].name) /\ n # ScannedRoot(d)
        /\ ScannedRoot(d) \in SelfAndAncestors(d, n)}

HeadersInOrder(d) == Ascending(HeaderElements(d))

FirstHeader(d) == HeadersInOrder(d)[1]

HasEmptyMetadata(c) == DOMAIN c.metadata = {}

PerHeaderChunks(docs) == SelectSeq(docs, LAMBDA c : ~HasEmptyMetadata(c))

\* The single-entry metadata of the chunk that header h introduces.
IntroducedBy(d, h) == LabelOfTag(d[h].name) :> get_text(d, h)

\* The non-blank strings among the nodes of S, stripped, in document order.
PiecesOf(d, S) ==
    LET strs == Ascending({j \in S : ~IsTag(d, j) /\ Strip(d[j].text) # <<>>})
    IN [k \in 1..Len(strs) |-> Strip(d[strs[k]].text)]

Returned == pc = "returned"

\* C1: in a document with at least one header, there is exactly one
\* per-header chunk for each header element found, and the metadata of the
\* chunk of a header has exactly one entry: that header's configured label
\* with that header's own visible text, nothing of an enclosing or earlier
\* header.
C1_OneChunkPerHeader ==
    (Returned /\ HeaderElements(file) # {}) =>
        LET per == PerHeaderChunks(documents)
            hs  == HeadersInOrder(file)
        IN /\ Len(per) = Len(hs)
           /\ \A k \in 1..Len(per) :
                /\ Cardinality(DOMAIN per[k].metadata) = 1
                /\ DOMAIN per[k].metadata = {LabelOfTag(file[hs[k]].name)}
                /\ per[k].metadata[LabelOfTag(file[hs[k]].name)] = get_text(file, hs[k])

\* C1 witness: a header with text nested inside another header with text,
\* both with their own chunk in the returned sequence.
C1_Witness ==
    /\ Returned
    /\ \E g, h \in HeaderElements(file) :
          /\ g # h
          /\ g \in SelfAndAncestors(file, h)
          /\ get_text(file, h) # <<>>
          /\ file[g].name # file[h].name
    /\ Len(PerHeaderChunks(documents)) >= 2

\* C2: the per-header chunks come in the document order of their headers,
\* and a chunk with empty metadata in a document with headers is the first
\* element of the sequence (so there is at most one).
C2_DocumentOrder ==
    (pc \in {"headers", "returned"} /\ HeaderElements(file) # {}) =>
        LET per == PerHeaderChunks(documents)
            hs  == HeadersInOrder(file)
        IN /\ \A k \in 1..Len(documents) : HasEmptyMetadata(documents[k]) => k = 1
           /\ Len(per) <= Len(hs)
           /\ \A k \in 1..Len(per) : per[k].metadata = IntroducedBy(file, hs[k])

\* C2 witness: a pre-header chunk first, then the chunks of two headers of
\* different levels at different depths, the deeper and lower one first.
C2_Witness ==
    /\ Returned
    /\ Len(documents) >= 3
    /\ HasEmptyMetadata(documents[1])
    /\ \E g, h \in HeaderElements(file) :
          /\ g < h
          /\ file[g].parent # file[h].parent
          /\ file[g].name = "h2"
          /\ file[h].name = "h1"

\* C5: a document without header elements yields the empty sequence when the
\* visible text of the scanned subtree is blank, and otherwise exactly one
\* chunk, with empty metadata and the whole visible text of the subtree; the
\* per-header loop is never entered.
C5_NoHeaderFallback ==
    HeaderElements(file) = {} =>
        /\ pc # "headers"
        /\ hi = 0
        /\ Returned =>
             IF PiecesOf(file, Descendants(file, ScannedRoot(file))) = <<>>
             THEN documents = <<>>
             ELSE /\ Len(documents) = 1
                  /\ HasEmptyMetadata(documents[1])
                  /\ documents[1].page_content =
                       Join(PiecesOf(file, Descendants(file, ScannedRoot(file))), <<" ">>)

\* C5 witness: a headerless document with a body, two strings inside the
\* body, returned as one chunk.
C5_Witness ==
    /\ Returned
    /\ HeaderElements(file) = {}
    /\ ScannedRoot(file) # 0
    /\ Len(PiecesOf(file, Descendants(file, ScannedRoot(file)))) = 2
    /\ Len(documents) = 1

\* The sibling elements after header h, before the next sibling header.
ContentSiblings(d, h) ==
    LET after == {j \in (h + 1)..Len(d) : d[j].parent = d[h].parent /\ IsTag(d, j)}
        stops == {j \in after : IsHeaderTag(d[j].name)}
    IN {j \in after : \A s \in stops : j < s}

ExpectedContent(d, h) ==
    LET sibs  == Ascending(ContentSiblings(d, h))
        texts == [k \in 1..Len(sibs) |-> get_text(d, sibs[k])]
    IN Join(SelectSeq(texts, LAMBDA t : t # <<>>), <<" ">>)

C3_PreHeaderOnlyIfTextPrecedes ==
    (Returned /\ HeaderElements(file) # {}
       /\ \E k \in 1..Len(documents) : HasEmptyMetadata(documents[k])) =>
        PiecesOf(file, 1..(FirstHeader(file) - 1)) # <<>>

\* C4: the text of the pre-header chunk is the visible text that precedes
\* the first header, in reading order, each string once.
C4_PreHeaderText ==
    (Returned /\ HeaderElements(file) # {} /\ documents # <<>>
       /\ HasEmptyMetadata(documents[1])) =>
        documents[1].page_content =
            Join(PiecesOf(file, 1..(FirstHeader(file) - 1)), <<" ">>)

\* The words of a text: its maximal runs of non-space characters.
RECURSIVE Words(_, _)
Words(s, cur) ==
    IF s = <<>> THEN (IF cur = <<>> THEN <<>> ELSE <<cur>>)
    ELSE IF IsSpace(Head(s))
         THEN (IF cur = <<>> THEN <<>> ELSE <<cur>>) \o Words(Tail(s), <<>>)
         ELSE Words(Tail(s), Append(cur, Head(s)))

RECURSIVE AllWords(_)
AllWords(docs) ==
    IF docs = <<>> THEN <<>>
    ELSE Words(Head(docs).page_content, <<>>) \o AllWords(Tail(docs))

Count(seq, v) == Cardinality({k \in 1..Len(seq) : seq[k] = v})

\* The strings of the scanned subtree that are not part of a header found.
NonHeaderStrings(d) ==
    {j \in Descendants(d, ScannedRoot(d)) :
        ~IsTag(d, j) /\ SelfAndAncestors(d, j) \cap HeaderElements(d) = {}}

AllStrings(d) == {j \in 1..Len(d) : ~IsTag(d, j)}

\* C7: the chunks partition the readable text: every non-header string of
\* the scanned subtree occurs in the text of exactly one chunk.  Stated for
\* the documents all of whose strings are such strings, where it makes each
\* piece occur in the chunks exactly as often as in the document.
C7_Partition ==
    (Returned /\ NonHeaderStrings(file) = AllStrings(file)) =>
        LET pieces == PiecesOf(file, NonHeaderStrings(file))
            words  == AllWords(documents)
        IN \A v \in {pieces[k] : k \in 1..Len(pieces)} \cup {words[k] : k \in 1..Len(words)} :
              Count(words, v) = Count(pieces, v)

(***************************************************************************)
(* split_html                                                              *)
(***************************************************************************)
TargetGiven == target_tag # "" /\ target_class # ""

MatchingElements(d) ==
    {n \in 1..Len(d) : d[n].name = target_tag /\ d[n].class = target_class}

\* The first matching element and everything inside it.
MatchedNodes(d) ==
    LET first == CHOOSE n \in MatchingElements(d) : \A m \in MatchingElements(d) : n <= m
    IN {first} \cup Descendants(d, first)

InRange(seq, x) == \E k \in 1..Len(seq) : seq[k] = x

\* C8: with a target that matches an element of the file, the saved chunks
\* are chunks of the segmentation of the preprocessed HTML (the matched
\* element only).
C8_SavedFromMatchedElement ==
    (pc = "done" /\ TargetGiven /\ MatchingElements(file) # {}) =>
        \A k \in 1..Len(output_pkl) :
            InRange(split_text_from_file(preprocess_html(file, target_tag, target_class)),
                    output_pkl[k])

\* The call takes the empty-document path: the target matches nothing, or
\* there is no target and the file is blank.
EmptyDocumentCase ==
    \/ TargetGiven /\ MatchingElements(file) = {}
    \/ ~TargetGiven /\ \A n \in 1..Len(file) : ~IsTag(file, n) /\ Strip(file[n].text) = <<>>

\* C9: when the target matches no element of the file (or the preprocessed
\* HTML is blank), split_html writes an empty chunk list and an empty text
\* rendering and returns: the file is never segmented and nothing is shown
\* to the reviewer, whatever the file contains.
C9_EmptyDocumentPath ==
    (exists /\ pc # "open" /\ EmptyDocumentCase) =>
        /\ pc = "done"
        /\ written
        /\ output_pkl = <<>>
        /\ output_txt = <<>>
        /\ si = 0
        /\ html_header_splits = <<>>
        /\ all_html_header_splits = <<>>
        /\ shown = <<>>

\* C9 witness: interactive call whose target matches nothing in a file that
\* has a header and text; the empty outputs are written.
C9_Witness ==
    /\ pc = "done"
    /\ written
    /\ interactive
    /\ TargetGiven
    /\ MatchingElements(file) = {}
    /\ HeaderElements(file) # {}
    /\ PiecesOf(file, 1..Len(file)) # <<>>
    /\ output_pkl = <<>>

\* The reviewer's answer to split k, if it was shown.
WasShown(k) == \E j \in 1..Len(shown) : shown[j].index = k

Rejected(k) ==
    \E j \in 1..Len(shown) : shown[j].index = k /\ shown[j].answer \in {<<"d">>, <<"D">>}

FilteredOut(k) == drop_empty_metadata /\ HasEmptyMetadata(html_header_splits[k])

\* The splits that are neither filtered out nor rejected (a "d" in either
\* case rejects).
Survivors == {k \in 1..Len(html_header_splits) : ~FilteredOut(k) /\ ~Rejected(k)}

\* The text rendering of a chunk list, entry by entry.
RenderedEntry(c) ==
    <<"=====", "\n">>
    \o (IF HasEmptyMetadata(c) THEN <<"{", "}">>
        ELSE LET key == CHOOSE k \in DOMAIN c.metadata : TRUE
             IN <<"{", "'", key, "'", ":", " ", "'">> \o c.metadata[key] \o <<"'", "}">>)
    \o <<"\n">> \o c.page_content \o <<"\n">>

RECURSIVE Rendered(_, _)
Rendered(chunks, n) ==
    IF n = 0 THEN <<>> ELSE Rendered(chunks, n - 1) \o RenderedEntry(chunks[n])

\* C10: whatever the reviewer answers, the saved sequence is the
\* order-preserving subsequence of the segmenter's output made of exactly
\* the chunks neither dropped by the metadata filter nor rejected; with the
\* filter on no saved chunk has empty metadata; a dropped chunk is never
\* shown; the chunks are shown at most once each, in output order; and the
\* text rendering lists the saved chunks in the saved order.
C10_FilterReviewSave ==
    /\ \A j \in 1..Len(shown) :
          /\ shown[j].index \in 1..Len(html_header_splits)
          /\ ~FilteredOut(shown[j].index)
          /\ interactive
    /\ \A i, j \in 1..Len(shown) : i < j => shown[i].index < shown[j].index
    /\ (pc = "done" /\ si > 0) =>
          LET keep == Ascending(Survivors)
          IN /\ written
             /\ output_pkl = [k \in 1..Len(keep) |-> html_header_splits[keep[k]]]
             /\ drop_empty_metadata => \A k \in 1..Len(output_pkl) : ~HasEmptyMetadata(output_pkl[k])
             /\ interactive => \A k \in 1..Len(html_header_splits) : ~FilteredOut(k) => WasShown(k)
             /\ output_txt = Rendered(output_pkl, Len(output_pkl))

\* C10 witness: an interactive run with the filter on: the pre-header chunk
\* is dropped unseen, the header chunk is shown and rejected, and the empty
\* result is saved.
C10_Witness ==
    /\ pc = "done"
    /\ written
    /\ interactive
    /\ drop_empty_metadata
    /\ Len(html_header_splits) = 2
    /\ FilteredOut(1)
    /\ ~WasShown(1)
    /\ Rejected(2)
    /\ output_pkl = <<>>

\* A second reachable case of C10: three header chunks reviewed, the middle
\* one rejected and the other two saved in order.
C10_KeptInOrder ==
    /\ pc = "done"
    /\ interactive
    /\ Len(html_header_splits) = 3
    /\ Len(shown) = 3
    /\ Rejected(2)
    /\ output_pkl = <<html_header_splits[1], html_header_splits[3]>>

====
